---- MODULE Spec2Model ----
(***************************************************************************)
(* The syscall table of src/syscalls.py: the syscall classes and their     *)
(* constructors, the module-level declarations that build the table when   *)
(* the module is imported, and the queries all() and for_arch().           *)
(***************************************************************************)
EXTENDS Integers, Sequences, FiniteSets, TLC

VARIABLES
    globals,    \* the module's global namespace: a function name -> object
    pc,         \* "import" while the module body runs, then "ready" or "failed"
    idx,        \* SpecTable: index of the next declaration of the source to run
    order,      \* iteration order of the globals dict, a sequence of names
    attempt,    \* the last declaration run: its name, class, arguments, outcome
    shadowed,   \* history: the names a declaration rebound to a different entry
    result,     \* the list the last call of all() returned
    gens,       \* the for_arch generators, one slot per consumer
    lookup      \* the last lookup by name or by number, and what it returned

vars == <<globals, pc, idx, order, attempt, shadowed, result, gens, lookup>>

----------------------------------------------------------------------------
(* Bounds of the model *)

\* Number of distinct names the declarations of Spec are drawn from.
NumNames == 2
\* Number of distinct names the registries of SpecQuery are built from.
NumQueryNames == 3
\* SpecCtor draws call numbers from 0..MaxNum.
MaxNum == 1
\* SpecCtor passes at most MaxArgs shape descriptors to one constructor call.
MaxArgs == 2
\* Number of consumers that hold a for_arch generator.
NumConsumers == 1

----------------------------------------------------------------------------
(* Values *)

\* Python's None in a syscall-number slot. Every call number is a natural.
None == -1

\* Python's None (or an unset attribute) in the semantics slot.
NoSemantics == "None"

\* The semantics keyword was not passed at all.
Omitted == "omitted"

EMU == "EMU"
EXEC == "EXEC"
MAY_EXEC == "MAY_EXEC"

ALL_SEMANTICS == {"EMU", "EXEC", "MAY_EXEC"}

Archs == {"x86", "x64"}

\* Python truthiness of a number-or-None value: None and 0 are falsy.
Truthy(v) == v # None /\ v # 0

\* Mutant: the architecture attributes are read crosswise.
GetAttr_Swapped(obj, arch) == CASE arch = "x86" -> obj.x64 [] arch = "x64" -> obj.x86

\* getattr(obj, arch), for an attribute the object has.
GetAttr(obj, arch) == CASE arch = "x86" -> obj.x86 [] arch = "x64" -> obj.x64

\* Architecture identifiers no entry has an attribute for.
UnsupportedArchs == {"arm"}

\* The object has the attribute: BaseSyscall.__init__ sets x86 and x64 on
\* every entry, and nothing sets an attribute for another architecture.
HasAttr(obj, arch) == arch \in {"x86", "x64"}

----------------------------------------------------------------------------
(* The class hierarchy *)

SyscallClasses ==
    {"BaseSyscall", "RestartSyscall", "UnsupportedSyscall", "InvalidSyscall",
     "RegularSyscall", "EmulatedSyscall", "ExecutedSyscall",
     "IrregularSyscall", "IrregularEmulatedSyscall", "IrregularMayExecSyscall"}

\* Mutant: InvalidSyscall derives from the common bases, not from
\* UnsupportedSyscall.
Bases_InvalidStandsAlone(cls) ==
    CASE cls = "RestartSyscall"           -> {"BaseSyscall", "ReplaySemantics"}
      [] cls = "UnsupportedSyscall"       -> {"BaseSyscall", "ReplaySemantics"}
      [] cls = "InvalidSyscall"           -> {"BaseSyscall", "ReplaySemantics"}
      [] cls = "RegularSyscall"           -> {"BaseSyscall", "ReplaySemantics"}
      [] cls = "EmulatedSyscall"          -> {"RegularSyscall"}
      [] cls = "ExecutedSyscall"          -> {"RegularSyscall"}
      [] cls = "IrregularSyscall"         -> {"BaseSyscall", "ReplaySemantics"}
      [] cls = "IrregularEmulatedSyscall" -> {"IrregularSyscall"}
      [] cls = "IrregularMayExecSyscall"  -> {"IrregularSyscall"}
      [] OTHER                            -> {}

\* The direct base classes of a class, as the class statements list them.
Bases(cls) ==
    CASE cls = "RestartSyscall"           -> {"BaseSyscall", "ReplaySemantics"}
      [] cls = "UnsupportedSyscall"       -> {"BaseSyscall", "ReplaySemantics"}
      [] cls = "InvalidSyscall"           -> {"UnsupportedSyscall"}
      [] cls = "RegularSyscall"           -> {"BaseSyscall", "ReplaySemantics"}
      [] cls = "EmulatedSyscall"          -> {"RegularSyscall"}
      [] cls = "ExecutedSyscall"          -> {"RegularSyscall"}
      [] cls = "IrregularSyscall"         -> {"BaseSyscall", "ReplaySemantics"}
      [] cls = "IrregularEmulatedSyscall" -> {"IrregularSyscall"}
      [] cls = "IrregularMayExecSyscall"  -> {"IrregularSyscall"}
      [] OTHER                            -> {}

RECURSIVE IsSubclass(_, _)
IsSubclass(cls, base) ==
    cls = base \/ \E b \in Bases(cls) : IsSubclass(b, base)

\* isinstance(obj, base)
IsInstance(obj, base) == IsSubclass(obj.cls, base)

----------------------------------------------------------------------------
(* Objects, keyword arguments and outcomes of a constructor call *)

\* A freshly allocated instance of cls, before __init__ has set anything.
NewObject(cls) ==
    [cls |-> cls, x86 |-> None, x64 |-> None, semantics |-> NoSemantics, args |-> {}]

\* Module-level objects that are not syscalls.
TypeObject == [cls |-> "type"]
FunctionObject == [cls |-> "function"]

\* The keyword arguments of a constructor call. args is the set of
\* <<position, shape>> pairs passed as arg<position>=shape.
Kwargs(x86, x64, semantics, args) ==
    [x86 |-> x86, x64 |-> x64, semantics |-> semantics, args |-> args]

Ok(obj) == [exc |-> "None", obj |-> obj]
Raise(exc) == [exc |-> exc, obj |-> [cls |-> "NoneType"]]

\* Mutant: the assertion that a number exists is missing.
BaseSyscall__init__NoAssert(self, x86, x64) ==
    Ok([self EXCEPT !.x86 = x86, !.x64 = x64])

\* Mutant: the x64 attribute is set from the x86 argument.
BaseSyscall__init__CopyX86(self, x86, x64) ==
    IF Truthy(x86) \/ Truthy(x64)
    THEN Ok([self EXCEPT !.x86 = x86, !.x64 = x86])
    ELSE Raise("AssertionError")

\* BaseSyscall.__init__(self, x86=None, x64=None, **kwargs)
BaseSyscall__init__(self, x86, x64) ==
    IF Truthy(x86) \/ Truthy(x64)
    THEN Ok([self EXCEPT !.x86 = x86, !.x64 = x64])
    ELSE Raise("AssertionError")

\* ReplaySemantics.__init__(self, semantics)
ReplaySemantics__init__(self, semantics) ==
    IF semantics \in ALL_SEMANTICS
    THEN Ok([self EXCEPT !.semantics = semantics])
    ELSE Raise("AssertionError")

\* Mutant: the restart call is given the semantics EMU.
RestartSyscall__init__Emulated(self, kw) ==
    IF kw.semantics # Omitted \/ kw.args # {}
    THEN Raise("TypeError")
    ELSE LET r == BaseSyscall__init__(self, kw.x86, kw.x64)
         IN  IF r.exc # "None" THEN r
             ELSE ReplaySemantics__init__(r.obj, EMU)

\* RestartSyscall.__init__(self, x86=None, x64=None)
RestartSyscall__init__(self, kw) ==
    IF kw.semantics # Omitted \/ kw.args # {}
    THEN Raise("TypeError")
    ELSE LET r == BaseSyscall__init__(self, kw.x86, kw.x64)
         IN  IF r.exc # "None" THEN r
             ELSE ReplaySemantics__init__(r.obj, EXEC)

\* Mutant: the signature takes a semantics keyword and honours it.
UnsupportedSyscall__init__HonoursSemantics(self, kw) ==
    IF kw.args # {}
    THEN Raise("TypeError")
    ELSE LET r == BaseSyscall__init__(self, kw.x86, kw.x64)
         IN  IF r.exc # "None" THEN r
             ELSE ReplaySemantics__init__(r.obj,
                      IF kw.semantics = Omitted THEN EXEC ELSE kw.semantics)

\* UnsupportedSyscall.__init__(self, x86=None, x64=None)
UnsupportedSyscall__init__(self, kw) ==
    IF kw.semantics # Omitted \/ kw.args # {}
    THEN Raise("TypeError")
    ELSE LET r == BaseSyscall__init__(self, kw.x86, kw.x64)
         IN  IF r.exc # "None" THEN r
             ELSE ReplaySemantics__init__(r.obj, EXEC)

\* InvalidSyscall.__init__(self, x86=None, x64=None)
InvalidSyscall__init__(self, kw) ==
    IF kw.semantics # Omitted \/ kw.args # {}
    THEN Raise("TypeError")
    ELSE UnsupportedSyscall__init__(self, Kwargs(kw.x86, kw.x64, Omitted, {}))

\* The semantics parameter of a signature (semantics=None, **kwargs).
SemanticsParam(kw) == IF kw.semantics = Omitted THEN NoSemantics ELSE kw.semantics

\* for a in range(1,6): if 'arg'+str(a) in kwargs: self.__setattr__(...)
SetArgs(self, args) ==
    [self EXCEPT !.args = {p \in args : p[1] \in 1..5}]

\* Mutant: the class does not assert its own legal set and relies on the
\* assertion of ReplaySemantics.__init__.
RegularSyscall__init__NoAssert(self, kw) ==
    LET r1 == ReplaySemantics__init__(self, SemanticsParam(kw))
    IN  IF r1.exc # "None" THEN r1
        ELSE LET r2 == BaseSyscall__init__(r1.obj, kw.x86, kw.x64)
             IN  IF r2.exc # "None" THEN r2
                 ELSE Ok(SetArgs(r2.obj, kw.args))

\* RegularSyscall.__init__(self, semantics=None, **kwargs)
RegularSyscall__init__(self, kw) ==
    LET semantics == SemanticsParam(kw)
    IN  IF semantics \notin {EMU, EXEC} THEN Raise("AssertionError")
        ELSE LET r1 == ReplaySemantics__init__(self, semantics)
             IN  IF r1.exc # "None" THEN r1
                 ELSE LET r2 == BaseSyscall__init__(r1.obj, kw.x86, kw.x64)
                      IN  IF r2.exc # "None" THEN r2
                          ELSE Ok(SetArgs(r2.obj, kw.args))

\* Mutant: a semantics keyword of the caller replaces the wrapper's value.
EmulatedSyscall__init__CallerOverrides(self, kw) ==
    RegularSyscall__init__(self,
        Kwargs(kw.x86, kw.x64, IF kw.semantics = Omitted THEN EMU ELSE kw.semantics,
               kw.args))

\* EmulatedSyscall.__init__(self, **kwargs)
EmulatedSyscall__init__(self, kw) ==
    IF kw.semantics # Omitted
    THEN Raise("TypeError")
    ELSE RegularSyscall__init__(self, Kwargs(kw.x86, kw.x64, EMU, kw.args))

\* ExecutedSyscall.__init__(self, **kwargs)
ExecutedSyscall__init__(self, kw) ==
    IF kw.semantics # Omitted
    THEN Raise("TypeError")
    ELSE RegularSyscall__init__(self, Kwargs(kw.x86, kw.x64, EXEC, kw.args))

\* Mutant: the legal set is checked against ALL_SEMANTICS only.
IrregularSyscall__init__NoAssert(self, kw) ==
    LET r1 == ReplaySemantics__init__(self, SemanticsParam(kw))
    IN  IF r1.exc # "None" THEN r1
        ELSE BaseSyscall__init__(r1.obj, kw.x86, kw.x64)

\* Mutant: an argN keyword is an error.
IrregularSyscall__init__RejectsArgs(self, kw) ==
    LET semantics == SemanticsParam(kw)
    IN  IF kw.args # {} THEN Raise("TypeError")
        ELSE IF semantics \notin {MAY_EXEC, EMU} THEN Raise("AssertionError")
        ELSE LET r1 == ReplaySemantics__init__(self, semantics)
             IN  IF r1.exc # "None" THEN r1
                 ELSE BaseSyscall__init__(r1.obj, kw.x86, kw.x64)

\* Mutant: the argN keywords are stored, as RegularSyscall stores them.
IrregularSyscall__init__StoresArgs(self, kw) ==
    LET semantics == SemanticsParam(kw)
    IN  IF semantics \notin {MAY_EXEC, EMU} THEN Raise("AssertionError")
        ELSE LET r1 == ReplaySemantics__init__(self, semantics)
             IN  IF r1.exc # "None" THEN r1
                 ELSE LET r2 == BaseSyscall__init__(r1.obj, kw.x86, kw.x64)
                      IN  IF r2.exc # "None" THEN r2
                          ELSE [r2 EXCEPT !.obj = SetArgs(r2.obj, kw.args)]

\* IrregularSyscall.__init__(self, semantics=None, **kwargs)
IrregularSyscall__init__(self, kw) ==
    LET semantics == SemanticsParam(kw)
    IN  IF semantics \notin {MAY_EXEC, EMU} THEN Raise("AssertionError")
        ELSE LET r1 == ReplaySemantics__init__(self, semantics)
             IN  IF r1.exc # "None" THEN r1
                 ELSE BaseSyscall__init__(r1.obj, kw.x86, kw.x64)

\* IrregularEmulatedSyscall.__init__(self, **kwargs)
IrregularEmulatedSyscall__init__(self, kw) ==
    IF kw.semantics # Omitted
    THEN Raise("TypeError")
    ELSE IrregularSyscall__init__(self, Kwargs(kw.x86, kw.x64, EMU, kw.args))

\* IrregularMayExecSyscall.__init__(self, **kwargs)
IrregularMayExecSyscall__init__(self, kw) ==
    IF kw.semantics # Omitted
    THEN Raise("TypeError")
    ELSE IrregularSyscall__init__(self, Kwargs(kw.x86, kw.x64, MAY_EXEC, kw.args))

\* cls(**kw): allocate an instance and run the class's __init__ on it.
Construct(cls, kw) ==
    LET self == NewObject(cls)
    IN  CASE cls = "RestartSyscall"           -> RestartSyscall__init__(self, kw)
          [] cls = "UnsupportedSyscall"       -> UnsupportedSyscall__init__(self, kw)
          [] cls = "InvalidSyscall"           -> InvalidSyscall__init__(self, kw)
          [] cls = "RegularSyscall"           -> RegularSyscall__init__(self, kw)
          [] cls = "EmulatedSyscall"          -> EmulatedSyscall__init__(self, kw)
          [] cls = "ExecutedSyscall"          -> ExecutedSyscall__init__(self, kw)
          [] cls = "IrregularSyscall"         -> IrregularSyscall__init__(self, kw)
          [] cls = "IrregularEmulatedSyscall" -> IrregularEmulatedSyscall__init__(self, kw)
          [] cls = "IrregularMayExecSyscall"  -> IrregularMayExecSyscall__init__(self, kw)

----------------------------------------------------------------------------
(* The module's global namespace *)

\* The class statements of the module, executed before any declaration.
ClassNames == SyscallClasses \cup {"ReplaySemantics"}
ClassBindings == [n \in ClassNames |-> TypeObject]

\* The def statements that end the module.
FunctionNames == {"_syscalls", "all", "for_arch"}

\* Mutant: an assignment to a name that is already bound keeps the old object.
BindKeepFirst(g, name, obj) ==
    [n \in DOMAIN g \cup {name} |-> IF n \in DOMAIN g THEN g[n] ELSE obj]

\* name = obj at module level: binds or rebinds the global.
Bind(g, name, obj) ==
    [n \in DOMAIN g \cup {name} |-> IF n = name THEN obj ELSE g[n]]

RECURSIVE BindAll(_, _, _)
BindAll(g, names, obj) ==
    IF names = {} THEN g
    ELSE LET n == CHOOSE n \in names : TRUE
         IN  BindAll(Bind(g, n, obj), names \ {n}, obj)

\* globals().iteritems(): the (name, obj) pairs of the dict in dict order.
\* ord lists the names syscalls are declared under, in the order the dict
\* iterates them; every other global, a class or a function of the module,
\* comes before them.
RECURSIVE SeqOfSet(_)
SeqOfSet(S) ==
    IF S = {} THEN <<>>
    ELSE LET n == CHOOSE n \in S : TRUE IN <<n>> \o SeqOfSet(S \ {n})

InSeq(s, x) == \E i \in 1..Len(s) : s[i] = x

\* The names of the classes and functions of the module, in dict order.
OtherGlobals == SeqOfSet(ClassNames \cup FunctionNames)

\* The keys of g in dict order.
Keys(g, ord) ==
    SelectSeq(OtherGlobals, LAMBDA n : n \in DOMAIN g /\ ~InSeq(ord, n))
        \o SelectSeq(ord, LAMBDA n : n \in DOMAIN g)

\* Mutant: each key is paired with the value of the key after it.
IterItems_ValuesShifted(g, ord) ==
    LET names == Keys(g, ord)
    IN  [i \in 1..Len(names) |-> <<names[i], g[names[(i % Len(names)) + 1]]>>]

\* The items of g under the keys names, in that order.
ItemsOf(g, names) == [i \in 1..Len(names) |-> <<names[i], g[names[i]]>>]

IterItems(g, ord) == ItemsOf(g, Keys(g, ord))

\* Mutant: every global is yielded, syscall or not.
_syscalls_NoFilter(g, ord) == IterItems(g, ord)

\* def _syscalls(): for name, obj in globals().iteritems():
\*                      if isinstance(obj, BaseSyscall): yield name, obj
_syscalls(g, ord) ==
    SelectSeq(IterItems(g, ord), LAMBDA item : IsInstance(item[2], "BaseSyscall"))

\* Mutant: the list is built from two passes over the generator.
all_TwoPasses(g, ord) == _syscalls(g, ord) \o _syscalls(g, ord)

\* def all(): return list(_syscalls())
all(g, ord) == _syscalls(g, ord)

\* Mutant: the test is the truth value of the number, not its presence.
ForArchTest_Truthy(obj, arch) == Truthy(GetAttr(obj, arch))

\* Mutant: an entry passes the test if it has a number on any architecture.
ForArchTest_AnyArch(obj, arch) == obj.x86 # None \/ obj.x64 # None

\* The test of for_arch: getattr(obj, arch) is not None
ForArchTest(obj, arch) == GetAttr(obj, arch) # None

\* list(for_arch(arch)), given the list items that all() returns: the pairs
\* the generator yields, in order.
for_arch_list(items, arch) ==
    SelectSeq(items, LAMBDA item : ForArchTest(item[2], arch))

ToSet(s) == {s[i] : i \in 1..Len(s)}

----------------------------------------------------------------------------
(* Inputs *)

\* The names declarations are made under, in a fixed enumeration.
NameSeq == <<"n1", "n2", "n3", "n4", "n5">>

Reverse(s) == [i \in 1..Len(s) |-> s[Len(s) + 1 - i]]

Names == {NameSeq[i] : i \in 1..NumNames}

\* The classes the declarations of the source instantiate.
DeclClasses ==
    {"RestartSyscall", "UnsupportedSyscall", "InvalidSyscall", "EmulatedSyscall",
     "ExecutedSyscall", "IrregularEmulatedSyscall", "IrregularMayExecSyscall"}

\* The classes a caller can instantiate.
CtorClasses == DeclClasses \cup {"RegularSyscall", "IrregularSyscall"}

\* Spec declares entries of one regular and one fixed-semantics class.
SpecClasses == {"EmulatedSyscall", "RestartSyscall"}

\* Numbers of the declarations of Spec and SpecQuery: absent, zero, non-zero.
DeclNumbers == {None, 0, 1}

DeclKwargs == {Kwargs(a, b, Omitted, {}) : a \in DeclNumbers, b \in DeclNumbers}

\* Inputs of SpecCtor: every number, every semantics argument, and up to
\* MaxArgs shape descriptors at distinct positions 1..6.
CtorNumbers == {None} \cup (0..MaxNum)

SemanticsArgs == {Omitted, NoSemantics, EMU, EXEC, MAY_EXEC}

Shapes == {"typename Arch::timeval", "int[2]"}

ArgSets ==
    {A \in SUBSET ((1..6) \X Shapes) :
        /\ Cardinality(A) <= MaxArgs
        /\ \A p \in A, q \in A : p[1] = q[1] => p = q}

CtorKwargs ==
    {Kwargs(a, b, s, A) : a \in CtorNumbers, b \in CtorNumbers,
                          s \in SemanticsArgs, A \in ArgSets}

----------------------------------------------------------------------------
(* Importing the module: the declarations build the table *)

NoAttempt ==
    [name |-> "", cls |-> "none", kw |-> Kwargs(None, None, Omitted, {}),
     result |-> Raise("None")]

\* No call of all() yet.  value is what the last call returned; again tells
\* that there was a call before it, and prev is what that call returned.
NoResult == [called |-> FALSE, value |-> <<>>, again |-> FALSE, prev |-> <<>>]

\* What a lookup returns: the entry under its name, or an explicit not-found.
Found(name, obj) == [found |-> TRUE, name |-> name, obj |-> obj]

NotFound == [found |-> FALSE, name |-> "", obj |-> [cls |-> "NoneType"]]

\* No lookup has been made yet.
NoLookup ==
    [kind |-> "none", arch |-> "", name |-> "", number |-> None, value |-> NotFound]

\* A consumer's slot before it has called for_arch.
NoGen ==
    [st |-> "none", arch |-> "", items |-> <<>>, pos |-> 0, out |-> <<>>,
     reiterated |-> FALSE, out2 |-> <<>>]

Consumers == 1..NumConsumers

NoGens == [c \in Consumers |-> NoGen]

\* The syscall entries of the namespace g.
Entries(g) == {n \in DOMAIN g : IsInstance(g[n], "BaseSyscall")}

\* Some entry of g other than name has a number of obj on the same architecture.
NumberTaken(g, name, obj) ==
    \E n \in Entries(g) \ {name}, a \in Archs :
        GetAttr(obj, a) # None /\ GetAttr(g[n], a) = GetAttr(obj, a)

\* Mutant: a declaration whose number another entry already has on the same
\* architecture ends the import.
DeclareStmtUniqueNumbers(name, cls, kw) ==
    /\ pc = "import"
    /\ LET r == Construct(cls, kw)
       IN  /\ attempt' = [name |-> name, cls |-> cls, kw |-> kw, result |-> r]
           /\ IF r.exc = "None" /\ ~NumberTaken(globals, name, r.obj)
              THEN /\ globals' = Bind(globals, name, r.obj)
                   /\ shadowed' = IF name \in Entries(globals) /\ globals[name] # r.obj
                                  THEN shadowed \cup {name} ELSE shadowed
                   /\ pc' = "import"
              ELSE /\ globals' = globals
                   /\ shadowed' = shadowed
                   /\ pc' = "failed"
    /\ UNCHANGED <<order, result, gens, lookup>>

\* Mutant: an exception of a constructor is swallowed and the module body
\* runs on with the next statement.
DeclareStmtContinues(name, cls, kw) ==
    /\ pc = "import"
    /\ LET r == Construct(cls, kw)
       IN  /\ attempt' = [name |-> name, cls |-> cls, kw |-> kw, result |-> r]
           /\ globals' = IF r.exc = "None" THEN Bind(globals, name, r.obj) ELSE globals
           /\ shadowed' = IF r.exc = "None" /\ name \in Entries(globals)
                             /\ globals[name] # r.obj
                          THEN shadowed \cup {name} ELSE shadowed
           /\ pc' = "import"
    /\ UNCHANGED <<order, result, gens, lookup>>

\* Mutant: declarations are also accepted after the import has ended, and
\* leave the module ready.
DeclareStmt_AfterImport(name, cls, kw) ==
    /\ pc \in {"import", "ready"}
    /\ LET r == Construct(cls, kw)
       IN  /\ attempt' = [name |-> name, cls |-> cls, kw |-> kw, result |-> r]
           /\ IF r.exc = "None"
              THEN /\ globals' = Bind(globals, name, r.obj)
                   /\ shadowed' = IF name \in Entries(globals) /\ globals[name] # r.obj
                                  THEN shadowed \cup {name} ELSE shadowed
                   /\ pc' = pc
              ELSE /\ globals' = globals
                   /\ shadowed' = shadowed
                   /\ pc' = "failed"
    /\ UNCHANGED <<order, result, gens, lookup>>

\* name = cls(**kw) at module level. An exception ends the import.
DeclareStmt(name, cls, kw) ==
    /\ pc = "import"
    /\ LET r == Construct(cls, kw)
       IN  /\ attempt' = [name |-> name, cls |-> cls, kw |-> kw, result |-> r]
           /\ IF r.exc = "None"
              THEN /\ globals' = Bind(globals, name, r.obj)
                   /\ shadowed' = IF name \in Entries(globals) /\ globals[name] # r.obj
                                  THEN shadowed \cup {name} ELSE shadowed
                   /\ pc' = "import"
              ELSE /\ globals' = globals
                   /\ shadowed' = shadowed
                   /\ pc' = "failed"
    /\ UNCHANGED <<order, result, gens, lookup>>

\* A declaration of a module whose statements are not enumerated.
Declare(name, cls, kw) ==
    /\ DeclareStmt(name, cls, kw)
    /\ UNCHANGED idx

\* The end of the module body: the three def statements, then the module
\* is imported and its functions can be called.
ImportDone ==
    /\ pc = "import"
    /\ globals' = BindAll(globals, FunctionNames, FunctionObject)
    /\ pc' = "ready"
    /\ UNCHANGED <<idx, order, attempt, shadowed, result, gens, lookup>>

\* Mutant: the loop variables of _syscalls are globals of the module, so a
\* call leaves the last item bound under the names "name" and "obj".
CallAll_LeaksLoopVars ==
    /\ pc = "ready"
    /\ LET items == all(globals, order)
       IN  /\ result' = [called |-> TRUE, value |-> items,
                         again |-> result.called, prev |-> result.value]
           /\ globals' = IF items = <<>> THEN globals
                         ELSE Bind(globals, "obj", items[Len(items)][2])
    /\ UNCHANGED <<pc, idx, order, attempt, shadowed, gens, lookup>>

\* A consumer calls all().
CallAll ==
    /\ pc = "ready"
    /\ result' = [called |-> TRUE, value |-> all(globals, order),
                  again |-> result.called, prev |-> result.value]
    /\ UNCHANGED <<globals, pc, idx, order, attempt, shadowed, gens, lookup>>

(* Lookups.  The source has no lookup function: a consumer reaches an entry
   by its name as a global of the module, and by its number through the
   pairs of for_arch.  The two lookups of the specification are modelled
   over these. *)

\* lookup_by_name(name): the entry bound to the name, or not-found.
lookup_by_name(g, name) ==
    IF name \in DOMAIN g /\ IsInstance(g[name], "BaseSyscall")
    THEN Found(name, g[name])
    ELSE NotFound

\* lookup_by_number(arch, n): the index holds, under n, the pair of
\* for_arch(arch) whose entry has the number n on arch; a later pair replaces
\* an earlier one under the same number.
lookup_by_number(items, arch, n) ==
    LET hits == SelectSeq(for_arch_list(items, arch),
                          LAMBDA item : GetAttr(item[2], arch) = n)
    IN  IF hits = <<>> THEN NotFound
        ELSE Found(hits[Len(hits)][1], hits[Len(hits)][2])

\* A consumer looks a name up.
LookupByName(names) ==
    /\ pc = "ready"
    /\ \E name \in names :
           lookup' = [kind |-> "by_name", arch |-> "", name |-> name,
                      number |-> None, value |-> lookup_by_name(globals, name)]
    /\ UNCHANGED <<globals, pc, idx, order, attempt, shadowed, result, gens>>

\* A consumer looks a number up on an architecture.
LookupByNumberIn(items, numbers) ==
    \E arch \in Archs, n \in numbers :
        lookup' = [kind |-> "by_number", arch |-> arch, name |-> "",
                   number |-> n, value |-> lookup_by_number(items, arch, n)]

LookupByNumber(numbers) ==
    /\ pc = "ready"
    /\ LookupByNumberIn(all(globals, order), numbers)
    /\ UNCHANGED <<globals, pc, idx, order, attempt, shadowed, result, gens>>

InitWith(ord) ==
    /\ globals = ClassBindings
    /\ pc = "import"
    /\ idx = 0
    /\ order = ord
    /\ attempt = NoAttempt
    /\ shadowed = {}
    /\ result = NoResult
    /\ gens = NoGens
    /\ lookup = NoLookup

(* Spec: a module of any number of declarations under NumNames names *)

Init == InitWith(Reverse(SubSeq(NameSeq, 1, NumNames)))

Next ==
    \/ \E name \in Names, cls \in SpecClasses, kw \in DeclKwargs : Declare(name, cls, kw)
    \/ ImportDone
    \/ CallAll

Spec == Init /\ [][Next]_vars

(* SpecCtor: a module of one declaration, of any class with any arguments *)

CtorDeclare ==
    /\ attempt = NoAttempt
    /\ \E cls \in CtorClasses, kw \in CtorKwargs : Declare(NameSeq[1], cls, kw)

InitCtor == InitWith(<<NameSeq[1]>>)

NextCtor ==
    \/ CtorDeclare
    \/ ImportDone
    \/ CallAll

SpecCtor == InitCtor /\ [][NextCtor]_vars

(* SpecTable: the module of the source, declaration by declaration *)

\* One declaration statement of the source: name = cls(x86=.., x64=.., argN=..).
D(name, cls, x86, x64, args) ==
    [name |-> name, cls |-> cls, kw |-> Kwargs(x86, x64, Omitted, args)]

\* The declarations from exit to restart_syscall, in source order.
NumberedDecls ==
    << D("exit", "IrregularMayExecSyscall", 1, 60, {}),
       D("fork", "EmulatedSyscall", 2, 57, {}),
       D("read", "IrregularEmulatedSyscall", 3, 0, {}),
       D("write", "IrregularEmulatedSyscall", 4, 1, {}),
       D("open", "EmulatedSyscall", 5, 2, {}),
       D("close", "EmulatedSyscall", 6, 3, {}),
       D("waitpid", "IrregularEmulatedSyscall", 7, None, {}),
       D("creat", "EmulatedSyscall", 8, 85, {}),
       D("link", "EmulatedSyscall", 9, 86, {}),
       D("unlink", "EmulatedSyscall", 10, 87, {}),
       D("execve", "IrregularMayExecSyscall", 11, 59, {}),
       D("chdir", "EmulatedSyscall", 12, 80, {}),
       D("time", "EmulatedSyscall", 13, 201, {<<1, "typename Arch::time_t">>}),
       D("mknod", "UnsupportedSyscall", 14, 133, {}),
       D("chmod", "EmulatedSyscall", 15, 90, {}),
       D("lchown", "EmulatedSyscall", 16, 94, {}),
       D("_break", "InvalidSyscall", 17, None, {}),
       D("oldstat", "UnsupportedSyscall", 18, None, {}),
       D("lseek", "EmulatedSyscall", 19, 8, {}),
       D("getpid", "EmulatedSyscall", 20, 39, {}),
       D("mount", "UnsupportedSyscall", 21, 165, {}),
       D("umount", "UnsupportedSyscall", 22, None, {}),
       D("setuid", "UnsupportedSyscall", 23, 105, {}),
       D("getuid", "EmulatedSyscall", 24, 102, {}),
       D("stime", "UnsupportedSyscall", 25, None, {}),
       D("ptrace", "IrregularEmulatedSyscall", 26, 101, {}),
       D("alarm", "EmulatedSyscall", 27, 37, {}),
       D("oldfstat", "UnsupportedSyscall", 28, None, {}),
       D("pause", "IrregularEmulatedSyscall", 29, 34, {}),
       D("utime", "EmulatedSyscall", 30, 132, {}),
       D("stty", "InvalidSyscall", 31, None, {}),
       D("gtty", "InvalidSyscall", 32, None, {}),
       D("access", "EmulatedSyscall", 33, 21, {}),
       D("nice", "UnsupportedSyscall", 34, None, {}),
       D("ftime", "InvalidSyscall", 35, None, {}),
       D("sync", "UnsupportedSyscall", 36, 162, {}),
       D("kill", "EmulatedSyscall", 37, 62, {}),
       D("rename", "EmulatedSyscall", 38, 82, {}),
       D("mkdir", "EmulatedSyscall", 39, 83, {}),
       D("rmdir", "EmulatedSyscall", 40, 84, {}),
       D("dup", "EmulatedSyscall", 41, 32, {}),
       D("pipe", "EmulatedSyscall", 42, 22, {<<1, "int[2]">>}),
       D("times", "EmulatedSyscall", 43, 100, {<<1, "typename Arch::tms">>}),
       D("prof", "InvalidSyscall", 44, None, {}),
       D("brk", "ExecutedSyscall", 45, 12, {}),
       D("setgid", "UnsupportedSyscall", 46, 106, {}),
       D("getgid", "EmulatedSyscall", 47, 104, {}),
       D("signal", "UnsupportedSyscall", 48, None, {}),
       D("geteuid", "EmulatedSyscall", 49, 107, {}),
       D("getegid", "EmulatedSyscall", 50, 108, {}),
       D("acct", "UnsupportedSyscall", 51, 163, {}),
       D("umount2", "UnsupportedSyscall", 52, 166, {}),
       D("lock", "InvalidSyscall", 53, None, {}),
       D("ioctl", "IrregularEmulatedSyscall", 54, 16, {}),
       D("fcntl", "IrregularEmulatedSyscall", 55, 72, {}),
       D("mpx", "InvalidSyscall", 56, None, {}),
       D("setpgid", "EmulatedSyscall", 57, 109, {}),
       D("ulimit", "InvalidSyscall", 58, None, {}),
       D("oldolduname", "UnsupportedSyscall", 59, None, {}),
       D("umask", "EmulatedSyscall", 60, 95, {}),
       D("chroot", "UnsupportedSyscall", 61, 161, {}),
       D("ustat", "UnsupportedSyscall", 62, 136, {}),
       D("dup2", "EmulatedSyscall", 63, 33, {}),
       D("getppid", "EmulatedSyscall", 64, 110, {}),
       D("getpgrp", "EmulatedSyscall", 65, 111, {}),
       D("setsid", "EmulatedSyscall", 66, 112, {}),
       D("sigaction", "EmulatedSyscall", 67, None, {<<3, "typename Arch::kernel_sigaction">>}),
       D("sgetmask", "UnsupportedSyscall", 68, None, {}),
       D("ssetmask", "UnsupportedSyscall", 69, None, {}),
       D("setreuid", "UnsupportedSyscall", 70, 113, {}),
       D("setregid", "UnsupportedSyscall", 71, 114, {}),
       D("sigsuspend", "IrregularEmulatedSyscall", 72, None, {}),
       D("sigpending", "UnsupportedSyscall", 73, None, {}),
       D("sethostname", "UnsupportedSyscall", 74, 170, {}),
       D("setrlimit", "ExecutedSyscall", 75, 160, {<<2, "typename Arch::rlimit">>}),
       D("getrlimit", "EmulatedSyscall", None, 97, {<<2, "typename Arch::rlimit">>}),
       D("getrusage", "EmulatedSyscall", 77, 98, {<<2, "typename Arch::rusage">>}),
       D("gettimeofday", "EmulatedSyscall", 78, 96, {<<1, "typename Arch::timeval">>, <<2, "typename Arch::timezone">>}),
       D("settimeofday", "UnsupportedSyscall", 79, 164, {}),
       D("getgroups", "IrregularEmulatedSyscall", 80, 115, {}),
       D("setgroups", "UnsupportedSyscall", 81, 116, {}),
       D("select", "IrregularEmulatedSyscall", 82, 23, {}),
       D("symlink", "EmulatedSyscall", 83, 88, {}),
       D("oldlstat", "UnsupportedSyscall", 84, None, {}),
       D("readlink", "IrregularEmulatedSyscall", 85, 89, {}),
       D("uselib", "UnsupportedSyscall", 86, 134, {}),
       D("swapon", "UnsupportedSyscall", 87, 167, {}),
       D("reboot", "UnsupportedSyscall", 88, 169, {}),
       D("readdir", "UnsupportedSyscall", 89, None, {}),
       D("mmap", "IrregularMayExecSyscall", 90, 9, {}),
       D("munmap", "ExecutedSyscall", 91, 11, {}),
       D("truncate", "EmulatedSyscall", 92, 76, {}),
       D("ftruncate", "EmulatedSyscall", 93, 77, {}),
       D("fchmod", "EmulatedSyscall", 94, 91, {}),
       D("fchown", "EmulatedSyscall", 95, 93, {}),
       D("getpriority", "EmulatedSyscall", 96, 140, {}),
       D("setpriority", "IrregularEmulatedSyscall", 97, 141, {}),
       D("profil", "InvalidSyscall", 98, None, {}),
       D("statfs", "EmulatedSyscall", 99, 137, {<<2, "typename Arch::statfs">>}),
       D("fstatfs", "EmulatedSyscall", 100, 138, {<<2, "typename Arch::statfs">>}),
       D("ioperm", "UnsupportedSyscall", 101, 173, {}),
       D("socketcall", "IrregularEmulatedSyscall", 102, None, {}),
       D("syslog", "UnsupportedSyscall", 103, 103, {}),
       D("setitimer", "EmulatedSyscall", 104, 38, {<<3, "typename Arch::itimerval">>}),
       D("getitimer", "EmulatedSyscall", 105, 36, {<<2, "typename Arch::itimerval">>}),
       D("stat", "EmulatedSyscall", 106, 4, {<<2, "typename Arch::stat">>}),
       D("lstat", "EmulatedSyscall", 107, 6, {<<2, "typename Arch::stat">>}),
       D("fstat", "EmulatedSyscall", 108, 5, {<<2, "typename Arch::stat">>}),
       D("olduname", "UnsupportedSyscall", 109, None, {}),
       D("iopl", "UnsupportedSyscall", 110, 172, {}),
       D("vhangup", "UnsupportedSyscall", 111, 153, {}),
       D("idle", "UnsupportedSyscall", 112, None, {}),
       D("vm86old", "UnsupportedSyscall", 113, None, {}),
       D("wait4", "IrregularEmulatedSyscall", 114, 61, {}),
       D("swapoff", "UnsupportedSyscall", 115, 168, {}),
       D("sysinfo", "EmulatedSyscall", 116, 99, {<<1, "typename Arch::sysinfo">>}),
       D("ipc", "IrregularEmulatedSyscall", 117, None, {}),
       D("fsync", "EmulatedSyscall", 118, 74, {}),
       D("sigreturn", "EmulatedSyscall", 119, None, {}),
       D("clone", "IrregularMayExecSyscall", 120, 56, {}),
       D("setdomainname", "UnsupportedSyscall", 121, 171, {}),
       D("uname", "EmulatedSyscall", 122, 63, {<<1, "typename Arch::utsname">>}),
       D("modify_ldt", "UnsupportedSyscall", 123, 154, {}),
       D("adjtimex", "UnsupportedSyscall", 124, 159, {}),
       D("mprotect", "ExecutedSyscall", 125, 10, {}),
       D("sigprocmask", "EmulatedSyscall", 126, None, {<<3, "typename Arch::sigset_t">>}),
       D("create_module", "UnsupportedSyscall", 127, 174, {}),
       D("init_module", "UnsupportedSyscall", 128, 175, {}),
       D("delete_module", "UnsupportedSyscall", 129, 176, {}),
       D("get_kernel_syms", "UnsupportedSyscall", 130, 177, {}),
       D("quotactl", "IrregularEmulatedSyscall", 131, 179, {}),
       D("getpgid", "EmulatedSyscall", 132, 121, {}),
       D("fchdir", "EmulatedSyscall", 133, 81, {}),
       D("bdflush", "UnsupportedSyscall", 134, None, {}),
       D("sysfs", "UnsupportedSyscall", 135, 139, {}),
       D("personality", "UnsupportedSyscall", 136, 135, {}),
       D("afs_syscall", "InvalidSyscall", 137, 183, {}),
       D("setfsuid", "UnsupportedSyscall", 138, 122, {}),
       D("setfsgid", "UnsupportedSyscall", 139, 123, {}),
       D("_llseek", "EmulatedSyscall", 140, None, {<<4, "typename Arch::__kernel_loff_t">>}),
       D("getdents", "IrregularEmulatedSyscall", 141, 78, {}),
       D("_newselect", "IrregularEmulatedSyscall", 142, None, {}),
       D("flock", "UnsupportedSyscall", 143, 73, {}),
       D("msync", "EmulatedSyscall", 144, 26, {}),
       D("readv", "IrregularEmulatedSyscall", 145, 19, {}),
       D("writev", "IrregularEmulatedSyscall", 146, 20, {}),
       D("getsid", "EmulatedSyscall", 147, 124, {}),
       D("fdatasync", "EmulatedSyscall", 148, 75, {}),
       D("_sysctl", "IrregularEmulatedSyscall", 149, 156, {}),
       D("mlock", "UnsupportedSyscall", 150, 149, {}),
       D("munlock", "UnsupportedSyscall", 151, 150, {}),
       D("mlockall", "UnsupportedSyscall", 152, 151, {}),
       D("munlockall", "UnsupportedSyscall", 153, 152, {}),
       D("sched_setparam", "UnsupportedSyscall", 154, 142, {}),
       D("sched_getparam", "EmulatedSyscall", 155, 143, {<<2, "typename Arch::sched_param">>}),
       D("sched_setscheduler", "EmulatedSyscall", 156, 144, {}),
       D("sched_getscheduler", "EmulatedSyscall", 157, 145, {}),
       D("sched_yield", "IrregularEmulatedSyscall", 158, 24, {}),
       D("sched_get_priority_max", "EmulatedSyscall", 159, 146, {}),
       D("sched_get_priority_min", "EmulatedSyscall", 160, 147, {}),
       D("sched_rr_get_interval", "UnsupportedSyscall", 161, 148, {}),
       D("nanosleep", "IrregularEmulatedSyscall", 162, 35, {}),
       D("mremap", "ExecutedSyscall", 163, 25, {}),
       D("setresuid", "EmulatedSyscall", 164, 117, {}),
       D("getresuid", "EmulatedSyscall", 165, 118, {<<1, "typename Arch::legacy_uid_t">>, <<2, "typename Arch::legacy_uid_t">>, <<3, "typename Arch::legacy_uid_t">>}),
       D("vm86", "UnsupportedSyscall", 166, None, {}),
       D("query_module", "UnsupportedSyscall", 167, 178, {}),
       D("poll", "IrregularEmulatedSyscall", 168, 7, {}),
       D("nfsservctl", "UnsupportedSyscall", 169, 180, {}),
       D("setresgid", "EmulatedSyscall", 170, 119, {}),
       D("getresgid", "EmulatedSyscall", 171, 120, {<<1, "typename Arch::legacy_gid_t">>, <<2, "typename Arch::legacy_gid_t">>, <<3, "typename Arch::legacy_gid_t">>}),
       D("prctl", "IrregularMayExecSyscall", 172, 157, {}),
       D("rt_sigreturn", "EmulatedSyscall", 173, 15, {}),
       D("rt_sigaction", "EmulatedSyscall", 174, 13, {<<3, "typename Arch::kernel_sigaction">>}),
       D("rt_sigprocmask", "EmulatedSyscall", 175, 14, {<<3, "typename Arch::sigset_t">>}),
       D("rt_sigpending", "IrregularEmulatedSyscall", 176, 127, {}),
       D("rt_sigtimedwait", "IrregularEmulatedSyscall", 177, 128, {}),
       D("rt_sigsuspend", "IrregularEmulatedSyscall", 179, 130, {}),
       D("pread64", "IrregularEmulatedSyscall", 180, 17, {}),
       D("pwrite64", "EmulatedSyscall", 181, 18, {}),
       D("chown", "EmulatedSyscall", 182, 92, {}),
       D("getcwd", "IrregularEmulatedSyscall", 183, 79, {}),
       D("capget", "UnsupportedSyscall", 184, 125, {}),
       D("capset", "UnsupportedSyscall", 185, 126, {}),
       D("sigaltstack", "EmulatedSyscall", 186, 131, {<<2, "typename Arch::stack_t">>}),
       D("sendfile", "IrregularEmulatedSyscall", 187, 40, {}),
       D("getpmsg", "InvalidSyscall", 188, 181, {}),
       D("putpmsg", "InvalidSyscall", 189, 182, {}),
       D("vfork", "IrregularEmulatedSyscall", 190, 58, {}),
       D("ugetrlimit", "EmulatedSyscall", 191, None, {<<2, "typename Arch::rlimit">>}),
       D("mmap2", "IrregularMayExecSyscall", 192, None, {}),
       D("truncate64", "EmulatedSyscall", 193, None, {}),
       D("ftruncate64", "EmulatedSyscall", 194, None, {}),
       D("stat64", "EmulatedSyscall", 195, None, {<<2, "typename Arch::stat64">>}),
       D("lstat64", "EmulatedSyscall", 196, None, {<<2, "typename Arch::stat64">>}),
       D("fstat64", "EmulatedSyscall", 197, None, {<<2, "typename Arch::stat64">>}),
       D("lchown32", "EmulatedSyscall", 198, None, {}),
       D("getuid32", "EmulatedSyscall", 199, None, {}),
       D("getgid32", "EmulatedSyscall", 200, None, {}),
       D("geteuid32", "EmulatedSyscall", 201, None, {}),
       D("getegid32", "EmulatedSyscall", 202, None, {}),
       D("setreuid32", "UnsupportedSyscall", 203, None, {}),
       D("setregid32", "EmulatedSyscall", 204, None, {}),
       D("getgroups32", "IrregularEmulatedSyscall", 205, None, {}),
       D("setgroups32", "UnsupportedSyscall", 206, None, {}),
       D("fchown32", "EmulatedSyscall", 207, None, {}),
       D("setresuid32", "EmulatedSyscall", 208, None, {}),
       D("getresuid32", "EmulatedSyscall", 209, None, {<<1, "typename Arch::uid_t">>, <<2, "typename Arch::uid_t">>, <<3, "typename Arch::uid_t">>}),
       D("setresgid32", "EmulatedSyscall", 210, None, {}),
       D("getresgid32", "EmulatedSyscall", 211, None, {<<1, "typename Arch::gid_t">>, <<2, "typename Arch::gid_t">>, <<3, "typename Arch::gid_t">>}),
       D("chown32", "EmulatedSyscall", 212, None, {}),
       D("setuid32", "UnsupportedSyscall", 213, None, {}),
       D("setgid32", "UnsupportedSyscall", 214, None, {}),
       D("setfsuid32", "UnsupportedSyscall", 215, None, {}),
       D("setfsgid32", "UnsupportedSyscall", 216, None, {}),
       D("pivot_root", "UnsupportedSyscall", 217, 155, {}),
       D("mincore", "IrregularEmulatedSyscall", 218, 27, {}),
       D("madvise", "ExecutedSyscall", 219, 28, {}),
       D("getdents64", "IrregularEmulatedSyscall", 220, 217, {}),
       D("fcntl64", "IrregularEmulatedSyscall", 221, None, {}),
       D("gettid", "EmulatedSyscall", 224, 186, {}),
       D("readahead", "EmulatedSyscall", 225, 187, {}),
       D("setxattr", "EmulatedSyscall", 226, 188, {}),
       D("lsetxattr", "EmulatedSyscall", 227, 189, {}),
       D("fsetxattr", "EmulatedSyscall", 228, 190, {}),
       D("getxattr", "IrregularEmulatedSyscall", 229, 191, {}),
       D("lgetxattr", "IrregularEmulatedSyscall", 230, 192, {}),
       D("fgetxattr", "IrregularEmulatedSyscall", 231, 193, {}),
       D("listxattr", "UnsupportedSyscall", 232, 194, {}),
       D("llistxattr", "UnsupportedSyscall", 233, 195, {}),
       D("flistxattr", "UnsupportedSyscall", 234, 196, {}),
       D("removexattr", "UnsupportedSyscall", 235, 197, {}),
       D("lremovexattr", "UnsupportedSyscall", 236, 198, {}),
       D("fremovexattr", "UnsupportedSyscall", 237, 199, {}),
       D("tkill", "UnsupportedSyscall", 238, 200, {}),
       D("sendfile64", "IrregularEmulatedSyscall", 239, None, {}),
       D("futex", "IrregularEmulatedSyscall", 240, 202, {}),
       D("sched_setaffinity", "IrregularEmulatedSyscall", 241, 203, {}),
       D("sched_getaffinity", "EmulatedSyscall", 242, 204, {<<3, "typename Arch::cpu_set_t">>}),
       D("set_thread_area", "ExecutedSyscall", 243, 205, {<<1, "typename Arch::user_desc">>}),
       D("get_thread_area", "UnsupportedSyscall", 244, 211, {}),
       D("io_setup", "UnsupportedSyscall", 245, 206, {}),
       D("io_destroy", "UnsupportedSyscall", 246, 207, {}),
       D("io_getevents", "UnsupportedSyscall", 247, 208, {}),
       D("io_submit", "UnsupportedSyscall", 248, 209, {}),
       D("io_cancel", "UnsupportedSyscall", 249, 210, {}),
       D("fadvise64", "EmulatedSyscall", 250, 221, {}),
       D("exit_group", "IrregularMayExecSyscall", 252, 231, {}),
       D("lookup_dcookie", "UnsupportedSyscall", 253, 212, {}),
       D("epoll_create", "EmulatedSyscall", 254, 213, {}),
       D("epoll_ctl", "EmulatedSyscall", 255, 233, {}),
       D("epoll_wait", "IrregularEmulatedSyscall", 256, 232, {}),
       D("remap_file_pages", "UnsupportedSyscall", 257, 216, {}),
       D("set_tid_address", "ExecutedSyscall", 258, 218, {<<1, "typename Arch::pid_t">>}),
       D("timer_create", "UnsupportedSyscall", 259, 222, {}),
       D("timer_settime", "UnsupportedSyscall", 260, 223, {}),
       D("timer_gettime", "UnsupportedSyscall", 261, 224, {}),
       D("timer_getoverrun", "UnsupportedSyscall", 262, 225, {}),
       D("timer_delete", "UnsupportedSyscall", 263, 226, {}),
       D("clock_settime", "UnsupportedSyscall", 264, 227, {}),
       D("clock_gettime", "EmulatedSyscall", 265, 228, {<<2, "typename Arch::timespec">>}),
       D("clock_getres", "EmulatedSyscall", 266, 229, {<<2, "typename Arch::timespec">>}),
       D("clock_nanosleep", "UnsupportedSyscall", 267, 230, {}),
       D("statfs64", "EmulatedSyscall", 268, None, {<<3, "typename Arch::statfs64">>}),
       D("fstatfs64", "EmulatedSyscall", 269, None, {<<3, "typename Arch::statfs64">>}),
       D("tgkill", "EmulatedSyscall", 270, 234, {}),
       D("utimes", "EmulatedSyscall", 271, 235, {}),
       D("fadvise64_64", "EmulatedSyscall", 272, None, {}),
       D("vserver", "InvalidSyscall", 273, 236, {}),
       D("mbind", "EmulatedSyscall", 274, 237, {}),
       D("get_mempolicy", "UnsupportedSyscall", 275, 239, {}),
       D("set_mempolicy", "UnsupportedSyscall", 276, 238, {}),
       D("mq_open", "UnsupportedSyscall", 277, 240, {}),
       D("mq_unlink", "UnsupportedSyscall", 278, 241, {}),
       D("mq_timedsend", "UnsupportedSyscall", 279, 242, {}),
       D("mq_timedreceive", "UnsupportedSyscall", 280, 243, {}),
       D("mq_notify", "UnsupportedSyscall", 281, 244, {}),
       D("mq_getsetattr", "UnsupportedSyscall", 282, 245, {}),
       D("kexec_load", "UnsupportedSyscall", 283, 246, {}),
       D("waitid", "IrregularEmulatedSyscall", 284, 247, {}),
       D("add_key", "UnsupportedSyscall", 286, 248, {}),
       D("request_key", "UnsupportedSyscall", 287, 249, {}),
       D("keyctl", "UnsupportedSyscall", 288, 250, {}),
       D("ioprio_set", "UnsupportedSyscall", 289, 251, {}),
       D("ioprio_get", "UnsupportedSyscall", 290, 252, {}),
       D("inotify_init", "EmulatedSyscall", 291, 253, {}),
       D("inotify_add_watch", "EmulatedSyscall", 292, 254, {}),
       D("inotify_rm_watch", "EmulatedSyscall", 293, 255, {}),
       D("migrate_pages", "UnsupportedSyscall", 294, 256, {}),
       D("openat", "EmulatedSyscall", 295, 257, {}),
       D("mkdirat", "EmulatedSyscall", 296, 258, {}),
       D("mknodat", "UnsupportedSyscall", 297, 259, {}),
       D("fchownat", "UnsupportedSyscall", 298, 260, {}),
       D("futimesat", "UnsupportedSyscall", 299, 261, {}),
       D("fstatat64", "EmulatedSyscall", 300, 262, {<<3, "typename Arch::stat64">>}),
       D("unlinkat", "EmulatedSyscall", 301, 263, {}),
       D("renameat", "UnsupportedSyscall", 302, 264, {}),
       D("linkat", "UnsupportedSyscall", 303, 265, {}),
       D("symlinkat", "UnsupportedSyscall", 304, 266, {}),
       D("readlinkat", "UnsupportedSyscall", 305, 267, {}),
       D("fchmodat", "UnsupportedSyscall", 306, 268, {}),
       D("faccessat", "EmulatedSyscall", 307, 269, {}),
       D("pselect6", "UnsupportedSyscall", 308, 270, {}),
       D("ppoll", "IrregularEmulatedSyscall", 309, 271, {}),
       D("unshare", "UnsupportedSyscall", 310, 272, {}),
       D("set_robust_list", "ExecutedSyscall", 311, 273, {}),
       D("get_robust_list", "UnsupportedSyscall", 312, 274, {}),
       D("splice", "IrregularEmulatedSyscall", 313, 275, {}),
       D("sync_file_range", "UnsupportedSyscall", 314, 277, {}),
       D("tee", "UnsupportedSyscall", 315, 276, {}),
       D("vmsplice", "UnsupportedSyscall", 316, 278, {}),
       D("move_pages", "UnsupportedSyscall", 317, 279, {}),
       D("getcpu", "UnsupportedSyscall", 318, 309, {}),
       D("epoll_pwait", "UnsupportedSyscall", 319, 281, {}),
       D("utimensat", "EmulatedSyscall", 320, 280, {}),
       D("signalfd", "EmulatedSyscall", 321, 282, {}),
       D("timerfd_create", "EmulatedSyscall", 322, 283, {}),
       D("eventfd", "UnsupportedSyscall", 323, 284, {}),
       D("fallocate", "EmulatedSyscall", 324, 285, {}),
       D("timerfd_settime", "EmulatedSyscall", 325, 286, {<<4, "typename Arch::itimerspec">>}),
       D("timerfd_gettime", "EmulatedSyscall", 326, 287, {<<2, "typename Arch::itimerspec">>}),
       D("signalfd4", "EmulatedSyscall", 327, 289, {}),
       D("eventfd2", "EmulatedSyscall", 328, 290, {}),
       D("epoll_create1", "EmulatedSyscall", 329, 291, {}),
       D("dup3", "EmulatedSyscall", 330, 292, {}),
       D("pipe2", "EmulatedSyscall", 331, 293, {<<1, "int[2]">>}),
       D("inotify_init1", "EmulatedSyscall", 332, 294, {}),
       D("preadv", "IrregularEmulatedSyscall", 333, 295, {}),
       D("pwritev", "EmulatedSyscall", 334, 296, {}),
       D("rt_sigqueueinfo", "EmulatedSyscall", 178, 129, {}),
       D("rt_tgsigqueueinfo", "EmulatedSyscall", 335, 297, {}),
       D("perf_event_open", "EmulatedSyscall", 336, 298, {}),
       D("recvmmsg", "IrregularEmulatedSyscall", 337, 299, {}),
       D("fanotify_init", "UnsupportedSyscall", 338, 300, {}),
       D("fanotify_mark", "UnsupportedSyscall", 339, 301, {}),
       D("prlimit64", "ExecutedSyscall", 340, 302, {<<4, "typename Arch::rlimit64">>}),
       D("name_to_handle_at", "UnsupportedSyscall", 341, 303, {}),
       D("open_by_handle_at", "UnsupportedSyscall", 342, 304, {}),
       D("clock_adjtime", "UnsupportedSyscall", 343, 305, {}),
       D("syncfs", "UnsupportedSyscall", 344, 306, {}),
       D("sendmmsg", "IrregularEmulatedSyscall", 345, 307, {}),
       D("setns", "UnsupportedSyscall", 346, 308, {}),
       D("process_vm_readv", "UnsupportedSyscall", 347, 310, {}),
       D("process_vm_writev", "UnsupportedSyscall", 348, 311, {}),
       D("kcmp", "UnsupportedSyscall", 349, 312, {}),
       D("finit_module", "UnsupportedSyscall", 350, 313, {}),
       D("sched_setattr", "UnsupportedSyscall", 351, 314, {}),
       D("sched_getattr", "UnsupportedSyscall", 352, 315, {}),
       D("renameat2", "UnsupportedSyscall", 353, 316, {}),
       D("seccomp", "UnsupportedSyscall", 354, 317, {}),
       D("getrandom", "IrregularEmulatedSyscall", 355, 318, {}),
       D("restart_syscall", "RestartSyscall", 0, 219, {}) >>

\* The calls rr itself adds.
RrcallDecls ==
    << D("rrcall_init_preload", "IrregularEmulatedSyscall", 442, 442, {}),
       D("rrcall_init_buffers", "IrregularEmulatedSyscall", 443, 443, {}),
       D("rrcall_notify_syscall_hook_exit", "IrregularEmulatedSyscall", 444, 444, {}) >>

\* These syscalls are subsumed under socketcall on x86.
SocketcallDecls ==
    << D("socket", "EmulatedSyscall", None, 41, {}),
       D("connect", "EmulatedSyscall", None, 42, {}),
       D("accept", "IrregularEmulatedSyscall", None, 43, {}),
       D("sendto", "EmulatedSyscall", None, 44, {}),
       D("recvfrom", "IrregularEmulatedSyscall", None, 45, {}),
       D("sendmsg", "IrregularEmulatedSyscall", None, 46, {}),
       D("recvmsg", "IrregularEmulatedSyscall", None, 47, {}),
       D("shutdown", "EmulatedSyscall", None, 48, {}),
       D("bind", "EmulatedSyscall", None, 49, {}),
       D("listen", "EmulatedSyscall", None, 50, {}),
       D("getsockname", "IrregularEmulatedSyscall", None, 51, {}),
       D("getpeername", "IrregularEmulatedSyscall", None, 52, {}),
       D("socketpair", "EmulatedSyscall", None, 53, {<<4, "int[2]">>}),
       D("setsockopt", "EmulatedSyscall", None, 54, {}),
       D("getsockopt", "IrregularEmulatedSyscall", None, 55, {}),
       D("accept4", "IrregularEmulatedSyscall", None, 288, {}) >>

\* These syscalls are subsumed under ipc on x86.
IpcDecls ==
    << D("shmget", "EmulatedSyscall", None, 29, {}),
       D("shmat", "IrregularEmulatedSyscall", None, 30, {}),
       D("shmctl", "IrregularEmulatedSyscall", None, 31, {}),
       D("semget", "EmulatedSyscall", None, 64, {}),
       D("semop", "IrregularEmulatedSyscall", None, 65, {}),
       D("semctl", "IrregularEmulatedSyscall", None, 66, {}),
       D("shmdt", "IrregularEmulatedSyscall", None, 67, {}),
       D("msgget", "EmulatedSyscall", None, 68, {}),
       D("msgsnd", "IrregularEmulatedSyscall", None, 69, {}),
       D("msgrcv", "IrregularEmulatedSyscall", None, 70, {}),
       D("msgctl", "IrregularEmulatedSyscall", None, 71, {}),
       D("semtimedop", "IrregularEmulatedSyscall", None, 220, {}) >>

\* Mutant: a declaration copied from the line above it keeps that line's number.
X64OnlyDecls_CopiedNumber ==
    << D("arch_prctl", "ExecutedSyscall", None, 158, {}),
       D("tuxcall", "InvalidSyscall", None, 184, {}),
       D("security", "InvalidSyscall", None, 184, {}),
       D("epoll_ctl_old", "UnsupportedSyscall", None, 214, {}),
       D("epoll_wait_old", "UnsupportedSyscall", None, 215, {}) >>

\* These syscalls simply don't exist on x86.
X64OnlyDecls ==
    << D("arch_prctl", "ExecutedSyscall", None, 158, {}),
       D("tuxcall", "InvalidSyscall", None, 184, {}),
       D("security", "InvalidSyscall", None, 185, {}),
       D("epoll_ctl_old", "UnsupportedSyscall", None, 214, {}),
       D("epoll_wait_old", "UnsupportedSyscall", None, 215, {}) >>

\* Every declaration of the source, in source order.
Declarations ==
    NumberedDecls \o RrcallDecls \o SocketcallDecls \o IpcDecls \o X64OnlyDecls

DeclaredNames == [i \in 1..Len(Declarations) |-> Declarations[i].name]

\* The next declaration of the source runs.
ExecDecl ==
    /\ idx < Len(Declarations)
    /\ idx' = idx + 1
    /\ LET d == Declarations[idx + 1]
       IN  DeclareStmt(d.name, d.cls, d.kw)

\* The def statements follow the last declaration.
TableImportDone ==
    /\ idx = Len(Declarations)
    /\ ImportDone

Max(S) == CHOOSE i \in S : \A j \in S : j <= i

\* Every number from 0 to one past the largest number of the table.
TableNumbers ==
    0..(Max({Declarations[i].kw.x86 : i \in 1..Len(Declarations)}
            \cup {Declarations[i].kw.x64 : i \in 1..Len(Declarations)}) + 1)

UndeclaredName == "no_such_syscall"

\* A consumer of the source's table makes one lookup.
TableLookup ==
    /\ lookup.kind = "none"
    /\ \/ LookupByName(ToSet(DeclaredNames) \cup {UndeclaredName})
       \/ LookupByNumber(TableNumbers)

InitTable == InitWith(DeclaredNames)

NextTable ==
    \/ ExecDecl
    \/ TableImportDone
    \/ CallAll

SpecTable == InitTable /\ [][NextTable]_vars

(* SpecTableLookup: the source's declarations run in order, then a consumer
   makes one lookup in the table *)

NextTableLookup ==
    \/ ExecDecl
    \/ TableImportDone
    \/ TableLookup

SpecTableLookup == InitTable /\ [][NextTableLookup]_vars

(* SpecQuery: consumers iterate for_arch over an imported registry *)

QueryNames == {NameSeq[i] : i \in 1..NumQueryNames}

\* The keyword arguments with which a declaration succeeds.
OkKwargs(cls) == {kw \in DeclKwargs : Construct(cls, kw).exc = "None"}

\* The namespace after the import of a module that declares, for each name
\* n of DOMAIN f, n = EmulatedSyscall(**f[n]).
RECURSIVE DeclareAll(_, _, _)
DeclareAll(g, f, names) ==
    IF names = {} THEN g
    ELSE LET n == CHOOSE n \in names : TRUE
         IN  DeclareAll(Bind(g, n, Construct("EmulatedSyscall", f[n]).obj), f, names \ {n})

Imported(f) ==
    BindAll(DeclareAll(ClassBindings, f, DOMAIN f), FunctionNames, FunctionObject)

\* for_arch(arch): the call creates a generator; no code of the body runs.
CallForArch(c, arch) ==
    /\ pc = "ready"
    /\ gens' = [gens EXCEPT ![c] = [st |-> "created", arch |-> arch,
                                    items |-> <<>>, pos |-> 0, out |-> <<>>,
                                    reiterated |-> FALSE, out2 |-> <<>>]]
    /\ UNCHANGED <<globals, pc, idx, order, attempt, shadowed, result, lookup>>

\* Mutant: getattr never raises.
Raises_Never(items, pos, arch) == {}

\* The positions of items, from pos on, where getattr(obj, arch) raises
\* AttributeError.
Raises(items, pos, arch) ==
    {i \in pos..Len(items) : ~HasAttr(items[i][2], arch)}

\* The positions of items, from pos on, whose entry passes the test.
Matches(items, pos, arch) ==
    {i \in pos..Len(items) :
        HasAttr(items[i][2], arch) /\ ForArchTest(items[i][2], arch)}

Min(S) == CHOOSE i \in S : \A j \in S : i <= j

\* The generator g once its loop has run over items from pos on, up to the
\* position last: it stops at the first entry that raises or passes the test,
\* whichever comes first, and at the end of the list otherwise. atEnd is the
\* state of a generator whose loop has run out.
Resume(g, items, pos, atEnd) ==
    LET m == Matches(items, pos, g.arch)
        r == Raises(items, pos, g.arch)
    IN  IF r # {} /\ (m = {} \/ Min(r) < Min(m))
        THEN [g EXCEPT !.st = "raised", !.items = items, !.pos = Len(items) + 1]
        ELSE IF m = {}
        THEN [g EXCEPT !.st = atEnd, !.items = items, !.pos = Len(items) + 1]
        ELSE [g EXCEPT !.st = "suspended", !.items = items,
                       !.pos = Min(m) + 1,
                       !.out = Append(g.out, items[Min(m)])]

\* Mutant: the consumers advance one shared cursor over the list.
NextGen_SharedCursor(c) ==
    /\ pc = "ready"
    /\ gens[c].st \in {"created", "suspended"}
    /\ \E items \in {IF gens[c].st = "created" THEN all(globals, order)
                     ELSE gens[c].items} :
           gens' = [gens EXCEPT ![c] =
               Resume(gens[c], items,
                      Max({1} \cup {gens[d].pos : d \in DOMAIN gens}), "done")]
    /\ UNCHANGED <<globals, pc, idx, order, attempt, shadowed, result, lookup>>

\* Mutant: at the end of the list the generator does not return; it stays
\* suspended.
NextGen_NeverEnds(c) ==
    /\ pc = "ready"
    /\ gens[c].st \in {"created", "suspended"}
    /\ \E items \in {IF gens[c].st = "created" THEN all(globals, order)
                     ELSE gens[c].items} :
           gens' = [gens EXCEPT ![c] =
               Resume(gens[c], items,
                      IF gens[c].st = "created" THEN 1 ELSE gens[c].pos,
                      "suspended")]
    /\ UNCHANGED <<globals, pc, idx, order, attempt, shadowed, result, lookup>>

\* next() on the generator: the first call runs all() and enters the loop;
\* each call runs the loop to the next yield, to an exception, or to its end.
\* The list all() returned is computed once, when the loop is entered.
NextGen(c) ==
    /\ pc = "ready"
    /\ gens[c].st \in {"created", "suspended"}
    /\ \E items \in {IF gens[c].st = "created" THEN all(globals, order)
                     ELSE gens[c].items} :
           gens' = [gens EXCEPT ![c] =
               Resume(gens[c], items,
                      IF gens[c].st = "created" THEN 1 ELSE gens[c].pos,
                      "done")]
    /\ UNCHANGED <<globals, pc, idx, order, attempt, shadowed, result, lookup>>

\* Mutant: a generator that has ended begins anew when it is advanced.
ResumePos_Restart(g) == 1

\* Where a generator that has ended resumes: its body has returned, and is
\* not entered again.
ResumePos(g) == g.pos

\* next() on a generator that has ended, as a second loop over the object
\* for_arch returned makes it: what it yields is recorded in out2.
NextGenAgain(c) ==
    /\ pc = "ready"
    /\ gens[c].st \in {"done", "raised"}
    /\ LET g == gens[c]
           m == Matches(g.items, ResumePos(g), g.arch)
       IN  gens' = [gens EXCEPT ![c] =
                IF m = {}
                THEN [g EXCEPT !.reiterated = TRUE]
                ELSE [g EXCEPT !.reiterated = TRUE, !.pos = Min(m) + 1,
                               !.out2 = Append(g.out2, g.items[Min(m)])]]
    /\ UNCHANGED <<globals, pc, idx, order, attempt, shadowed, result, lookup>>

InitQuery ==
    \E S \in SUBSET QueryNames :
        \E f \in [S -> OkKwargs("EmulatedSyscall")] :
            \E ord \in {SubSeq(NameSeq, 1, NumQueryNames),
                        Reverse(SubSeq(NameSeq, 1, NumQueryNames))} :
                /\ globals = Imported(f)
                /\ pc = "ready"
                /\ idx = 0
                /\ order = ord
                /\ attempt = NoAttempt
                /\ shadowed = {}
                /\ result = NoResult
                /\ gens = NoGens
                /\ lookup = NoLookup

NextQuery ==
    \/ \E c \in Consumers, arch \in Archs : CallForArch(c, arch)
    \/ \E c \in Consumers : NextGen(c)

SpecQuery == InitQuery /\ [][NextQuery]_vars

----------------------------------------------------------------------------
(* The five categories of the specification, read off the class hierarchy *)

IsOrdinary(obj) == IsInstance(obj, "RegularSyscall")
IsIrregular(obj) == IsInstance(obj, "IrregularSyscall")
IsUnsupported(obj) == IsInstance(obj, "UnsupportedSyscall")
IsInvalid(obj) == IsInstance(obj, "InvalidSyscall")
IsRestart(obj) == IsInstance(obj, "RestartSyscall")

\* The table of section 4.1: the semantics values legal for a category.
LegalSemantics(obj) ==
    IF IsOrdinary(obj) THEN {EMU, EXEC}
    ELSE IF IsIrregular(obj) THEN {MAY_EXEC, EMU}
    ELSE {EXEC}

\* The entry is defined on the architecture.
DefinedOn(obj, arch) == GetAttr(obj, arch) # None

\* The last declaration ran and raised.
Failed(a) == a.cls # "none" /\ a.result.exc # "None"
\* The last declaration ran and bound an entry.
Succeeded(a) == a.cls # "none" /\ a.result.exc = "None"

----------------------------------------------------------------------------
(* Claims about single constructor calls, checked under SpecCtor *)

\* C2: every entry in the registry has a semantics value that is legal for
\* its category: Ordinary EMU or EXEC, Irregular MAY_EXEC or EMU,
\* Unsupported, Invalid and Restart exactly EXEC.
C2_SemanticsLegalForCategory ==
    \A n \in Entries(globals) : globals[n].semantics \in LegalSemantics(globals[n])

\* A registry is ready whose entry was built by RegularSyscall called
\* directly with EXEC.
C2_Witness ==
    /\ pc = "ready"
    /\ \E n \in Entries(globals) :
          /\ globals[n].cls = "RegularSyscall"
          /\ globals[n].semantics = EXEC

\* C3: a constructor call whose semantics is outside the legal set of the
\* class's category raises and leaves no entry: any class given a value
\* that is illegal for it, RegularSyscall given MAY_EXEC or nothing,
\* IrregularSyscall given EXEC or nothing, whatever the numbers are.
C3_IllegalSemanticsFails ==
    LET a == attempt
        s == a.kw.semantics
        illegal ==
            \/ s \in ALL_SEMANTICS \ LegalSemantics(NewObject(a.cls))
            \/ a.cls = "RegularSyscall" /\ s \in {MAY_EXEC, Omitted, NoSemantics}
            \/ a.cls = "IrregularSyscall" /\ s \in {EXEC, Omitted, NoSemantics}
    IN  (a.cls # "none" /\ illegal) =>
            /\ Failed(a)
            /\ Entries(globals) = {}
            /\ pc = "failed"

\* RegularSyscall was called with MAY_EXEC and valid numbers on both
\* architectures, and the import has failed.
C3_Witness ==
    /\ attempt.cls = "RegularSyscall"
    /\ attempt.kw.semantics = MAY_EXEC
    /\ attempt.kw.x86 = 1
    /\ attempt.kw.x64 = 1
    /\ pc = "failed"

\* C4: a constructor call of any class that passes neither an x86 nor an
\* x64 number raises, and no entry is created.
C4_NoNumbersFails ==
    (attempt.cls # "none" /\ attempt.kw.x86 = None /\ attempt.kw.x64 = None) =>
        /\ Failed(attempt)
        /\ Entries(globals) = {}
        /\ pc = "failed"

\* A wrapper class that passes legal semantics by itself was called with no
\* number at all.
C4_Witness ==
    /\ attempt.cls = "IrregularMayExecSyscall"
    /\ attempt.kw = Kwargs(None, None, Omitted, {})
    /\ pc = "failed"

\* C6: 0 is a call number, not a marker of absence: a constructor call that
\* is otherwise valid and whose only number is 0, on x86 alone or on x64
\* alone, succeeds, and the entry is defined on that architecture.
C6_ZeroIsANumber ==
    LET a == attempt
        onlyZero == \/ a.kw.x86 = 0 /\ a.kw.x64 = None
                    \/ a.kw.x86 = None /\ a.kw.x64 = 0
    IN  (a.cls \in DeclClasses /\ a.kw.semantics = Omitted /\ a.kw.args = {} /\ onlyZero) =>
            /\ Succeeded(a)
            /\ \A arch \in Archs :
                  GetAttr(a.kw, arch) = 0 => DefinedOn(a.result.obj, arch)

----------------------------------------------------------------------------
(* Claims about the registry a module of several declarations builds,     *)
(* checked under Spec                                                      *)

\* The pairs of a list whose name is n.
PairsNamed(list, n) == {i \in 1..Len(list) : list[i][1] = n}

\* Two different names of g hold entries with the same number on arch a.
SameNumber(g, n1, n2, a) ==
    /\ n1 # n2
    /\ DefinedOn(g[n1], a)
    /\ GetAttr(g[n1], a) = GetAttr(g[n2], a)

\* C5: every entry in the registry has a call number on at least one
\* architecture.
C5_EveryEntryHasANumber ==
    \A n \in Entries(globals) : \E a \in Archs : DefinedOn(globals[n], a)

\* The registry is ready and holds an entry with an x64 number and no x86
\* number.
C5_Witness ==
    /\ pc = "ready"
    /\ \E n \in Entries(globals) : globals[n].x86 = None /\ globals[n].x64 = 1

\* C8: the list all() returns never holds two pairs with the same name.
C8_NamesUnique ==
    result.called =>
        \A i \in 1..Len(result.value), j \in 1..Len(result.value) :
            i # j => result.value[i][1] # result.value[j][1]

\* all() has returned two pairs, after a name was declared a second time.
C8_Witness ==
    /\ result.called
    /\ Len(result.value) = 2
    /\ shadowed # {}

----------------------------------------------------------------------------
(* Claims about the table the source declares, checked under SpecTable *)

\* C1: in the registry the source builds, on each of x86 and x64, no two
\* distinct entries that are defined on the architecture have the same
\* call number.
C1_NumbersUniquePerArch ==
    pc = "ready" =>
        \A a \in Archs, n1 \in Entries(globals), n2 \in Entries(globals) :
            (n1 # n2 /\ DefinedOn(globals[n1], a) /\ DefinedOn(globals[n2], a))
                => GetAttr(globals[n1], a) # GetAttr(globals[n2], a)

\* Every declaration of the source has run and the registry is ready; it
\* holds calls defined on both architectures, among them the two calls
\* numbered 0.
C1_Witness ==
    /\ pc = "ready"
    /\ idx = Len(Declarations)
    /\ Cardinality(Entries(globals)) = Len(Declarations)
    /\ globals["restart_syscall"].x86 = 0
    /\ globals["read"].x64 = 0
    /\ globals["exit"].x86 = 1
    /\ globals["epoll_wait_old"].x64 = 215

----------------------------------------------------------------------------
(* Claims about for_arch, checked under SpecQuery *)

\* The pairs of all() whose entry is defined on the architecture.
DefinedPairs(arch) ==
    {p \in ToSet(all(globals, order)) : DefinedOn(p[2], arch)}

\* C7: for_arch(a) yields exactly the pairs of all() whose entry has a
\* number on a, entries numbered 0 included: while the iteration runs it
\* has yielded only such pairs, each once, and when it ends it has yielded
\* them all.
C7_ForArchYieldsDefinedEntries ==
    \A c \in Consumers :
        LET g == gens[c]
        IN  /\ g.st \in {"suspended", "done"} =>
                  /\ ToSet(g.out) \subseteq DefinedPairs(g.arch)
                  /\ Cardinality(ToSet(g.out)) = Len(g.out)
            /\ g.st = "done" => ToSet(g.out) = DefinedPairs(g.arch)

\* The registry holds one x86-only entry, one x64-only entry and one entry
\* on both architectures whose x86 number is 0; an iteration of
\* for_arch("x86") has ended after yielding the first and the third.
C7_Witness ==
    /\ Entries(globals) = {"n1", "n2", "n3"}
    /\ globals["n1"].x86 = 1 /\ globals["n1"].x64 = None
    /\ globals["n2"].x86 = None /\ globals["n2"].x64 = 1
    /\ globals["n3"].x86 = 0 /\ globals["n3"].x64 = 1
    /\ \E c \in Consumers :
          /\ gens[c].st = "done"
          /\ gens[c].arch = "x86"
          /\ ToSet(gens[c].out) = {<<"n1", globals["n1"]>>, <<"n3", globals["n3"]>>}

-----------------------------------------------------------------------------
(* SpecAbort: the modules of Spec, whose declarations may also fail for the
   other reasons a constructor has: an illegal semantics, a semantics keyword
   given to a class that fixes it, an argN keyword given to a class that
   takes none *)

Shape1 == CHOOSE s \in Shapes : TRUE

BadDecls ==
    { <<"RegularSyscall", Kwargs(1, None, MAY_EXEC, {})>>,
      <<"IrregularSyscall", Kwargs(1, None, EXEC, {})>>,
      <<"EmulatedSyscall", Kwargs(1, None, EXEC, {})>>,
      <<"UnsupportedSyscall", Kwargs(1, None, Omitted, {<<1, Shape1>>})>> }

NextAbort ==
    \/ Next
    \/ \E name \in Names, d \in BadDecls : Declare(name, d[1], d[2])

SpecAbort == Init /\ [][NextAbort]_vars

\* C11: when a declaration fails at construction, for whichever reason, the
\* import of the module is aborted: the module is failed and not ready, its
\* query functions were never defined, and no query has returned anything,
\* although entries declared before the failing one may be bound.  A failed
\* module takes no further step, so this holds from the failure on.
C11_FailureAbortsImport ==
    Failed(attempt) =>
        /\ pc = "failed"
        /\ FunctionNames \cap DOMAIN globals = {}
        /\ ~result.called
        /\ lookup.kind = "none"
        /\ \A c \in DOMAIN gens : gens[c].st = "none"

\* An argN keyword given to UnsupportedSyscall fails the import after an
\* earlier declaration had bound an entry.
C11_Witness ==
    /\ Failed(attempt)
    /\ attempt.cls = "UnsupportedSyscall"
    /\ attempt.result.exc = "TypeError"
    /\ Entries(globals) # {}

-----------------------------------------------------------------------------
(* SpecLookup: an imported module of any declarations under the names of
   QueryNames, and consumers that look names and numbers up *)

LookupNumbers == DeclNumbers \ {None}

NextLookup ==
    \/ LookupByName(QueryNames)
    \/ LookupByNumber(LookupNumbers)
    \/ CallAll

SpecLookup == InitQuery /\ [][NextLookup]_vars

-----------------------------------------------------------------------------
(* Claims about lookups *)

\* C12: lookup by number round-trips in the table the source declares: for
\* every entry e and every architecture a on which e is defined, the lookup
\* of e's number on a returns exactly e, under e's name.
C12_LookupByNumberRoundTrips ==
    lookup.kind = "by_number" =>
        \A n \in Entries(globals) :
            (DefinedOn(globals[n], lookup.arch)
             /\ GetAttr(globals[n], lookup.arch) = lookup.number)
                => lookup.value = Found(n, globals[n])

\* The lookup of number 0 on x86 has returned restart_syscall.
C12_Witness ==
    /\ lookup.kind = "by_number"
    /\ lookup.arch = "x86"
    /\ lookup.number = 0
    /\ lookup.value.found
    /\ lookup.value.name = "restart_syscall"
    /\ lookup.value.obj = globals["restart_syscall"]

\* C13: lookup by name round-trips: for every (name, entry) pair of the list
\* all() returns, the lookup of the name returns exactly that entry, under
\* that name.
C13_LookupByNameRoundTrips ==
    lookup.kind = "by_name" =>
        \A p \in ToSet(all(globals, order)) :
            p[1] = lookup.name => lookup.value = Found(p[1], p[2])

\* A name has been looked up and found in a registry of several different
\* entries.
C13_Witness ==
    /\ lookup.kind = "by_name"
    /\ lookup.value.found
    /\ lookup.value.obj = globals[lookup.name]
    /\ \E p \in ToSet(all(globals, order)) :
           p[1] # lookup.name /\ p[2] # lookup.value.obj

\* The entry obj has the number n on the architecture arch.
HasNumberOn(obj, arch, n) ==
    \/ arch = "x86" /\ obj.x86 = n
    \/ arch = "x64" /\ obj.x64 = n

\* C14: a lookup by number on architecture a returns an entry only when that
\* entry is in the registry and has the number on a, and returns the explicit
\* not-found value, and does not raise, when no entry has the number on a.
\* In a registry holding only an entry declared on x64 alone, the lookup by
\* name returns the entry.
C14_LookupRespectsArchitecture ==
    /\ lookup.kind = "by_number" =>
           IF lookup.value.found
           THEN /\ lookup.value.name \in Entries(globals)
                /\ lookup.value.obj = globals[lookup.value.name]
                /\ HasNumberOn(lookup.value.obj, lookup.arch, lookup.number)
           ELSE /\ lookup.value = NotFound
                /\ \A n \in Entries(globals) :
                       ~HasNumberOn(globals[n], lookup.arch, lookup.number)
    /\ (lookup.kind = "by_name" /\ Entries(globals) = {lookup.name}
        /\ globals[lookup.name].x86 = None)
           => lookup.value = Found(lookup.name, globals[lookup.name])

\* In a registry holding only an entry with the number 1 on x64 and none on
\* x86, the lookup of 1 on x86 has returned not-found.
C14_Witness ==
    /\ lookup.kind = "by_number"
    /\ lookup.arch = "x86"
    /\ lookup.number = 1
    /\ lookup.value = NotFound
    /\ \E e \in QueryNames :
           /\ Entries(globals) = {e}
           /\ globals[e].x86 = None
           /\ globals[e].x64 = 1

-----------------------------------------------------------------------------
(* More claims about single constructor calls, checked under SpecCtor *)

FixedSemanticsClasses == {"RestartSyscall", "UnsupportedSyscall", "InvalidSyscall"}

\* C15: an entry constructed by RestartSyscall, UnsupportedSyscall or
\* InvalidSyscall has the semantics EXEC whatever numbers it was given, and
\* it was given no semantics argument: a call that passes one raises
\* TypeError and constructs nothing.
C15_FixedSemanticsIsExec ==
    attempt.cls \in FixedSemanticsClasses =>
        /\ Succeeded(attempt) =>
               /\ attempt.result.obj.semantics = EXEC
               /\ attempt.kw.semantics = Omitted
        /\ attempt.kw.semantics # Omitted =>
               /\ Failed(attempt)
               /\ attempt.result.exc = "TypeError"

\* An InvalidSyscall was constructed with an x64 number only.
C15_Witness ==
    /\ attempt.cls = "InvalidSyscall"
    /\ Succeeded(attempt)
    /\ attempt.kw.x86 = None
    /\ attempt.result.obj.semantics = EXEC
    /\ globals[attempt.name] = attempt.result.obj

\* C16: an Ordinary entry constructed with shape descriptors carries exactly
\* the descriptors it was given, at the positions it was given them, for
\* every position from 1 to 6, and none at any other position.
C16_ShapesStoredAsGiven ==
    (Succeeded(attempt) /\ IsOrdinary(attempt.result.obj)) =>
        attempt.result.obj.args = attempt.kw.args

IrregularClasses ==
    {"IrregularSyscall", "IrregularEmulatedSyscall", "IrregularMayExecSyscall"}

CategoryClasses ==
    {"RegularSyscall", "IrregularSyscall", "UnsupportedSyscall", "InvalidSyscall",
     "RestartSyscall"}

Categories(obj) == {c \in CategoryClasses : IsInstance(obj, c)}

\* C18 as stated: every entry is classified under exactly one of the five
\* categories; an Invalid entry is not also Unsupported.
C18_FiveCategoriesExclusive ==
    Succeeded(attempt) => Cardinality(Categories(attempt.result.obj)) = 1

\* C18, amended: every entry is classified under exactly one of Ordinary,
\* Irregular, Unsupported and Restart; Invalid is a sub-category of
\* Unsupported: an entry is Invalid exactly when InvalidSyscall constructed
\* it, and then it is Unsupported as well, while an entry constructed by
\* UnsupportedSyscall is not Invalid.
C18_InvalidIsUnsupported ==
    Succeeded(attempt) =>
        LET obj == attempt.result.obj
        IN  /\ Cardinality(Categories(obj) \ {"InvalidSyscall"}) = 1
            /\ IsInvalid(obj) <=> attempt.cls = "InvalidSyscall"
            /\ IsInvalid(obj) => IsUnsupported(obj)
            /\ attempt.cls = "UnsupportedSyscall" => (IsUnsupported(obj) /\ ~IsInvalid(obj))

\* An entry constructed by InvalidSyscall is bound; it is classified under
\* both Invalid and Unsupported.
C18_Witness ==
    /\ Succeeded(attempt)
    /\ attempt.cls = "InvalidSyscall"
    /\ globals[attempt.name] = attempt.result.obj
    /\ Categories(attempt.result.obj) = {"InvalidSyscall", "UnsupportedSyscall"}

-----------------------------------------------------------------------------
(* SpecIter: two consumers iterate for_arch over an imported registry, in
   any interleaving; a generator may be abandoned for a new one, and one
   that has ended may be iterated again *)

NumIterNames == 2

IterNames == {NameSeq[i] : i \in 1..NumIterNames}

IterConsumers == {"c1", "c2"}

InitIter ==
    \E S \in SUBSET IterNames :
        \E f \in [S -> OkKwargs("EmulatedSyscall")] :
            \E ord \in {SubSeq(NameSeq, 1, NumIterNames),
                        Reverse(SubSeq(NameSeq, 1, NumIterNames))} :
                /\ globals = Imported(f)
                /\ pc = "ready"
                /\ idx = 0
                /\ order = ord
                /\ attempt = NoAttempt
                /\ shadowed = {}
                /\ result = NoResult
                /\ gens = [c \in IterConsumers |-> NoGen]
                /\ lookup = NoLookup

NextIter ==
    \/ \E c \in IterConsumers, arch \in Archs : CallForArch(c, arch)
    \/ \E c \in IterConsumers : NextGen(c)
    \/ \E c \in IterConsumers : NextGenAgain(c)
    \/ CallAll

SpecIter == InitIter /\ [][NextIter]_vars

\* C19 as stated: when the generator one call of for_arch returned has been
\* iterated to its end and is iterated again, it yields the same pairs again.
C19_SecondPassYieldsSame ==
    \A c \in DOMAIN gens :
        gens[c].reiterated => ToSet(gens[c].out2) = ToSet(gens[c].out)

\* C19, amended: the generator is one-shot: iterated again after its end it
\* yields nothing and stays ended; the full set is had again from a new call
\* of for_arch, every call's generator yielding, by its end, exactly the
\* pairs defined on its architecture.
C19_GeneratorIsOneShot ==
    \A c \in DOMAIN gens :
        /\ gens[c].reiterated => (gens[c].out2 = <<>> /\ gens[c].st = "done")
        /\ gens[c].st = "done" => ToSet(gens[c].out) = DefinedPairs(gens[c].arch)

\* A generator that had yielded pairs and ended was iterated again and
\* yielded nothing.
C19_Witness ==
    \E c \in DOMAIN gens :
        /\ gens[c].reiterated
        /\ gens[c].out # <<>>
        /\ gens[c].out2 = <<>>

\* C20: whatever the interleaving of the consumers' steps, and whether or
\* not another consumer's generator was partly advanced or abandoned, each
\* generator has yielded a prefix of what list(for_arch(arch)) is for its
\* architecture, and all of it when it has ended.
C20_IterationsIndependent ==
    \A c \in DOMAIN gens :
        LET g    == gens[c]
            full == for_arch_list(all(globals, order), g.arch)
        IN  g.st \in {"suspended", "done"} =>
                /\ Len(g.out) <= Len(full)
                /\ g.out = SubSeq(full, 1, Len(g.out))
                /\ g.st = "done" => g.out = full

\* One consumer's generator has ended after yielding several pairs while
\* the other's, for the same architecture, is suspended after its first.
C20_Witness ==
    /\ gens["c1"].st = "suspended"
    /\ Len(gens["c1"].out) = 1
    /\ gens["c2"].st = "done"
    /\ Len(gens["c2"].out) > 1
    /\ gens["c1"].arch = gens["c2"].arch

-----------------------------------------------------------------------------
(* Claims about the queries of an imported module *)

\* C21: queries have no side effects: no call of all(), no call of for_arch
\* and no step of an iteration changes the module's globals, hence neither
\* the set of (name, entry) pairs of the registry nor any entry's numbers,
\* semantics or shape descriptors, nor the order the dict iterates in.
C21_QueriesHaveNoSideEffects ==
    [][pc = "ready" => (pc' = "ready" /\ globals' = globals /\ order' = order)]_vars

\* all() was called, one consumer has iterated for_arch to its end and the
\* other is in the middle of an iteration.
C21_Witness ==
    /\ result.called
    /\ result.value # <<>>
    /\ gens["c1"].st = "done"
    /\ gens["c1"].out # <<>>
    /\ gens["c2"].st = "suspended"

\* The (name, entry) pairs of the registry g.
RegistryPairs(g) == {<<n, g[n]>> : n \in Entries(g)}

\* C22: the registry is built once, by the import, and is fixed afterwards:
\* a call of all() returns the same set of pairs as the call before it,
\* whenever the two were made, and what the last call returned is still the
\* registry, no entry having been added, replaced or removed since.
C22_RegistryFixedAfterImport ==
    /\ result.again => ToSet(result.value) = ToSet(result.prev)
    /\ result.called => (pc = "ready" /\ ToSet(result.value) = RegistryPairs(globals))

\* all() has been called at least twice on a registry of several entries.
C22_Witness ==
    /\ result.again
    /\ Len(result.value) > 1
    /\ result.prev = result.value

\* C23: over the declarations of the source, all() returns the full set: for
\* every declaration one pair, under the declared name and holding the entry
\* the declaration constructed, every name once, and nothing else: every
\* pair holds a syscall entry, none a class or a function of the module.
C23_AllReturnsEveryEntry ==
    result.called =>
        /\ Len(result.value) = Len(Declarations)
        /\ \A i \in 1..Len(Declarations) :
               LET d == Declarations[i]
               IN  /\ Cardinality(PairsNamed(result.value, d.name)) = 1
                   /\ <<d.name, Construct(d.cls, d.kw).obj>> \in ToSet(result.value)
        /\ \A p \in ToSet(result.value) :
               /\ IsInstance(p[2], "BaseSyscall")
               /\ p[1] \notin ClassNames \cup FunctionNames

\* all() was called after every declaration of the source had run.
C23_Witness ==
    /\ result.called
    /\ idx = Len(Declarations)
    /\ Len(result.value) = Len(Declarations)
    /\ ClassNames \cup FunctionNames \subseteq DOMAIN globals

-----------------------------------------------------------------------------
(* Further claims about single constructor calls, checked under SpecCtor *)

WrapperClasses ==
    {"EmulatedSyscall", "ExecutedSyscall", "IrregularEmulatedSyscall",
     "IrregularMayExecSyscall"}

\* The semantics a wrapper class passes to its base class.
WrapperSemantics(cls) ==
    CASE cls = "EmulatedSyscall"          -> EMU
      [] cls = "ExecutedSyscall"          -> EXEC
      [] cls = "IrregularEmulatedSyscall" -> EMU
      [] cls = "IrregularMayExecSyscall"  -> MAY_EXEC

\* C24: an entry constructed by a wrapper class has the semantics of that
\* wrapper, whatever numbers and shape descriptors it was given, and the
\* caller cannot override it: a call that passes a semantics keyword raises
\* TypeError and constructs nothing.
C24_WrapperFixesSemantics ==
    attempt.cls \in WrapperClasses =>
        /\ Succeeded(attempt) =>
               /\ attempt.result.obj.semantics = WrapperSemantics(attempt.cls)
               /\ attempt.kw.semantics = Omitted
        /\ attempt.kw.semantics # Omitted =>
               /\ Failed(attempt)
               /\ attempt.result.exc = "TypeError"

\* An IrregularMayExecSyscall was constructed and has MAY_EXEC.
C24_Witness ==
    /\ attempt.cls = "IrregularMayExecSyscall"
    /\ Succeeded(attempt)
    /\ attempt.result.obj.semantics = MAY_EXEC
    /\ globals[attempt.name] = attempt.result.obj

-----------------------------------------------------------------------------
(* SpecTableIter: the source's declarations run in order, then a consumer
   iterates for_arch over the table *)

TableConsumer == CHOOSE c \in Consumers : TRUE

NextTableIter ==
    \/ ExecDecl
    \/ TableImportDone
    \/ \E arch \in Archs : CallForArch(TableConsumer, arch)
    \/ NextGen(TableConsumer)

SpecTableIter == InitTable /\ [][NextTableIter]_vars

\* The two calls that multiplex others on x86, and the calls they subsume.
Multiplexers == {"socketcall", "ipc"}

SubCallNames ==
    {SocketcallDecls[i].name : i \in 1..Len(SocketcallDecls)}
        \cup {IpcDecls[i].name : i \in 1..Len(IpcDecls)}

\* The names a generator has yielded.
YieldedNames(g) == {g.out[i][1] : i \in 1..Len(g.out)}

\* C25: every sub-call of socketcall and of ipc is an entry of its own, with
\* an x64 number and no x86 number, and socketcall and ipc have an x86
\* number and no x64 number; an iteration of for_arch("x86") yields no
\* sub-call and, by its end, socketcall and ipc; an iteration of
\* for_arch("x64") yields neither socketcall nor ipc and, by its end, every
\* sub-call.
C25_SubCallsAreX64Entries ==
    pc = "ready" =>
        /\ \A n \in SubCallNames :
               /\ n \in Entries(globals)
               /\ globals[n].x86 = None
               /\ globals[n].x64 # None
        /\ \A n \in Multiplexers :
               /\ n \in Entries(globals)
               /\ globals[n].x86 # None
               /\ globals[n].x64 = None
        /\ \A c \in DOMAIN gens :
               LET g == gens[c]
               IN  /\ g.arch = "x86" =>
                          /\ YieldedNames(g) \cap SubCallNames = {}
                          /\ g.st = "done" => Multiplexers \subseteq YieldedNames(g)
                   /\ g.arch = "x64" =>
                          /\ YieldedNames(g) \cap Multiplexers = {}
                          /\ g.st = "done" => SubCallNames \subseteq YieldedNames(g)

\* An iteration of for_arch("x64") over the table has ended and has yielded
\* the sub-calls.
C25_Witness ==
    /\ gens[TableConsumer].st = "done"
    /\ gens[TableConsumer].arch = "x64"
    /\ {"socket", "accept4", "shmget", "semtimedop"} \subseteq YieldedNames(gens[TableConsumer])
    /\ "socketcall" \notin YieldedNames(gens[TableConsumer])

-----------------------------------------------------------------------------
(* More claims about the table the source declares *)

\* C26: the registry the source builds holds exactly one entry of the
\* Restart category, under the name restart_syscall; it has a number on x86
\* and on x64 and its semantics is EXEC; all() returns it once.
C26_OneRestartEntry ==
    pc = "ready" =>
        /\ {n \in Entries(globals) : IsRestart(globals[n])} = {"restart_syscall"}
        /\ globals["restart_syscall"].x86 # None
        /\ globals["restart_syscall"].x64 # None
        /\ globals["restart_syscall"].semantics = EXEC
        /\ result.called =>
               {p \in ToSet(result.value) : IsRestart(p[2])}
                   = {<<"restart_syscall", globals["restart_syscall"]>>}

\* The table is imported and all() has returned restart_syscall, whose x86
\* number is 0.
C26_Witness ==
    /\ pc = "ready"
    /\ result.called
    /\ \E p \in ToSet(result.value) :
           p[1] = "restart_syscall" /\ IsRestart(p[2]) /\ p[2].x86 = 0

-----------------------------------------------------------------------------
(* SpecIterRun: each of two consumers calls for_arch once and loops over the
   generator; a consumer that is in its loop goes on calling next() *)

\* A consumer that has no generator calls for_arch.
StartIteration(c, arch) ==
    /\ gens[c].st = "none"
    /\ CallForArch(c, arch)

NextIterRun ==
    \/ \E c \in IterConsumers, arch \in Archs : StartIteration(c, arch)
    \/ \E c \in IterConsumers : NextGen(c)

\* The registries of InitIter, in declaration order.
InitIterRun ==
    /\ InitIter
    /\ order = SubSeq(NameSeq, 1, NumIterNames)

\* A consumer of a generator is a for loop, which calls next() until the
\* generator ends: every generator that can be advanced eventually is.
SpecIterRun ==
    /\ InitIterRun
    /\ [][NextIterRun]_vars
    /\ \A c \in IterConsumers : WF_vars(NextGen(c))

\* C27: every iteration of for_arch terminates: a generator that was created
\* and is advanced by its consumer reaches its end, for either architecture
\* and every registry, and at no point has it yielded more pairs than all()
\* holds.
C27_IterationTerminates ==
    /\ \A c \in IterConsumers :
           [](Len(gens[c].out) <= Len(all(globals, order)))
    /\ \A c \in IterConsumers :
           (gens[c].st = "created") ~> (gens[c].st = "done")

\* An iteration has ended after yielding every pair of a registry of
\* several entries.
C27_Witness ==
    \E c \in IterConsumers :
        /\ gens[c].st = "done"
        /\ Len(gens[c].out) > 1
        /\ Len(gens[c].out) = Len(all(globals, order))

-----------------------------------------------------------------------------
(* Shape descriptors outside the Ordinary category, checked under SpecCtor *)

\* C28: after any construction attempt, an entry that is not Ordinary carries
\* no shape descriptor at any position: a RestartSyscall, UnsupportedSyscall
\* or InvalidSyscall call that passes one raises TypeError and constructs
\* nothing, and an entry of an Irregular class has none stored whatever it
\* was passed.
C28_OnlyOrdinaryCarriesShapes ==
    /\ (Succeeded(attempt) /\ ~IsOrdinary(attempt.result.obj)) =>
           attempt.result.obj.args = {}
    /\ (attempt.cls \in FixedSemanticsClasses /\ attempt.kw.args # {}) =>
           /\ Failed(attempt)
           /\ attempt.result.exc = "TypeError"
    /\ (attempt.cls \in IrregularClasses /\ Succeeded(attempt)) =>
           /\ IsIrregular(attempt.result.obj)
           /\ attempt.result.obj.args = {}

\* An UnsupportedSyscall call with a legal number and a shape descriptor was
\* rejected.
C28_Witness ==
    /\ attempt.cls = "UnsupportedSyscall"
    /\ Truthy(attempt.kw.x86)
    /\ attempt.kw.semantics = Omitted
    /\ attempt.kw.args # {}
    /\ Failed(attempt)
    /\ attempt.result.exc = "TypeError"

-----------------------------------------------------------------------------
(* for_arch with an architecture no entry has an attribute for *)

NextArch ==
    \/ \E c \in IterConsumers, arch \in Archs \cup UnsupportedArchs :
           StartIteration(c, arch)
    \/ \E c \in IterConsumers : NextGen(c)
    \/ \E c \in IterConsumers : NextGenAgain(c)

SpecArch == InitIter /\ [][NextArch]_vars

\* C29: when for_arch was called with an architecture outside {x86, x64} and
\* the registry is not empty, the first advance of the iteration ends it in an
\* error: once advanced, the generator has raised, and it has yielded no
\* entry, then or on any later advance; it has not ended as an empty sequence.
C29_UnsupportedArchRaises ==
    \A c \in IterConsumers :
        (/\ gens[c].arch \in UnsupportedArchs
         /\ gens[c].st \notin {"none", "created"}
         /\ all(globals, order) # <<>>) =>
            /\ gens[c].st = "raised"
            /\ gens[c].out = <<>>
            /\ gens[c].out2 = <<>>

\* An iteration for an unsupported architecture over a registry of several
\* entries has raised, and was advanced again.
C29_Witness ==
    \E c \in IterConsumers :
        /\ gens[c].arch \in UnsupportedArchs
        /\ gens[c].st = "raised"
        /\ gens[c].reiterated
        /\ Len(gens[c].items) > 1

====
